---- MODULE Spec2Model ----
(***************************************************************************)
(* PDF ingestion (pineconeupsert.py, the /upload route of app.py), query   *)
(* (pinecone_query*.py and their callers) and the Streamlit Chatbot        *)
(* handler (streamlit_app.py) as state machines.                           *)
(*                                                                         *)
(* A Python str is a sequence of one-character strings, so that split,     *)
(* join, strip and lower are computed and not assumed.  File names, model  *)
(* names and namespaces, which the code only compares and concatenates,    *)
(* are TLA+ strings.                                                       *)
(***************************************************************************)
EXTENDS Integers, Sequences, FiniteSets, TLC

VARIABLES
  \* ---- split_text applied to an arbitrary text (SpecSplit) ----
  sp_text,          \* the text argument
  sp_max_length,    \* the max_length argument
  sp_chunks,        \* list(split_text(sp_text, sp_max_length)) once sp_pc = "done"
  sp_pc,            \* "idle" | "call" | "done"
  \* ---- embed_and_upsert_pdfs (Spec) ----
  secrets_model,    \* st.secrets entry OPENAI_MODEL, or Unset
  request,          \* who calls embed_and_upsert_pdfs: a caller with a list of
                    \* paths, or a POST to the /upload route of app.py
  http_response,    \* what upload_file returned, None before
  disk,             \* what opening each path as a PDF gives
  file_paths,       \* the argument of embed_and_upsert_pdfs
  pc,               \* "idle" | "route" | "loop" | "embed" | "upsert" | "done" |
                    \* "raised" | "responded"
  fi,               \* position of the for loop over file_paths (1-based)
  filename,         \* local: os.path.basename(file_path)
  pdf_text,         \* local: extracted text
  text_chunks,      \* local: list(split_text(pdf_text))
  gen_words,        \* local `words` of the generator inside embed_text_chunks
  ci,               \* how many chunks that generator has yielded
  embeddings,       \* local of embed_text_chunks, then of embed_and_upsert_pdfs
  vectors,          \* local: records prepared for the upsert
  embed_calls,      \* requests received by the embedding API, in order
  upsert_calls,     \* requests received by the index, in order
  processing_log,   \* file names logged by "Processing file: ..." (line 135)
  index,            \* records stored in the vector index
  \* ---- the query entry points and the Chatbot handler (SpecQuery) ----
  entry,            \* which entry point runs
  env_model,        \* environment variable OPENAI_MODEL, or Unset
  user_input,       \* the question typed (user_query, search_query, user_input)
  q_pc,             \* "idle" | "start" | "query" | "relevance" | "extract" |
                    \* "answer" | "done"
  embedding,        \* result of embed_query
  search_results,   \* result of query_pinecone
  mi,               \* position of the relevance loop over the matches (1-based)
  relevant_insights,
  relevant_references,
  q_embed_calls,    \* requests of embed_query to the embedding API
  query_calls,      \* requests of query_pinecone to the index
  llm_calls,        \* chat-completion requests, in order
  shown             \* what the entry point has displayed, in order

ingestVars == <<secrets_model, request, http_response, disk, file_paths, pc, fi, filename, pdf_text,
                text_chunks, gen_words, ci, embeddings, vectors,
                embed_calls, upsert_calls, processing_log, index>>
splitVars == <<sp_text, sp_max_length, sp_chunks, sp_pc>>
queryVars == <<entry, env_model, user_input, q_pc, embedding, search_results, mi,
               relevant_insights, relevant_references, q_embed_calls,
               query_calls, llm_calls, shown>>
vars == <<splitVars, ingestVars, queryVars>>

---------------------------------------------------------------------------
(* Bounds *)

\* longest text handed to split_text in SpecSplit, in characters
MaxTextLen == 5
\* largest max_length handed to split_text in SpecSplit
MaxChunkLen == 3
\* longest file_paths list
MaxFiles == 2
\* records the vector index holds when it is queried
MaxRecords == 3
\* largest chunk index of the ids compared with the ids of the records
MaxIdx == 11

---------------------------------------------------------------------------
(* Python values *)

None == [tag |-> "None"]
Unset == "<unset>"

\* truth value of an embedding result: None is falsy, a vector is truthy
Truthy(v) == v.tag # "None"

Min(a, b) == IF a <= b THEN a ELSE b

---------------------------------------------------------------------------
(* str methods *)

Whitespace == {" ", "\n", "\t"}
IsSpace(c) == c \in Whitespace

\* words of t[lo..hi]; a word that straddles the middle is glued back together
RECURSIVE SplitRange(_, _, _)
SplitRange(t, lo, hi) ==
  IF lo > hi THEN <<>>
  ELSE IF lo = hi THEN (IF IsSpace(t[lo]) THEN <<>> ELSE << <<t[lo]>> >>)
  ELSE LET mid == (lo + hi) \div 2
           L == SplitRange(t, lo, mid)
           R == SplitRange(t, mid + 1, hi)
       IN IF ~IsSpace(t[mid]) /\ ~IsSpace(t[mid + 1])
          THEN SubSeq(L, 1, Len(L) - 1) \o << L[Len(L)] \o R[1] >> \o Tail(R)
          ELSE L \o R

\* text.split(): the maximal runs of non-whitespace characters, in order
str_split(t) == SplitRange(t, 1, Len(t))

\* sep.join(ws[lo..hi])
RECURSIVE JoinRange(_, _, _, _)
JoinRange(sep, ws, lo, hi) ==
  IF lo > hi THEN <<>>
  ELSE IF lo = hi THEN ws[lo]
  ELSE LET mid == (lo + hi) \div 2
       IN JoinRange(sep, ws, lo, mid) \o sep \o JoinRange(sep, ws, mid + 1, hi)

\* sep.join(ws)
str_join(sep, ws) == JoinRange(sep, ws, 1, Len(ws))

\* the concatenation of a list of lists
RECURSIVE Flatten(_)
Flatten(ss) == IF ss = <<>> THEN <<>> ELSE Head(ss) \o Flatten(Tail(ss))

\* c.lower() for one character
UpperCase == <<"A", "B", "C", "D", "E", "F", "G", "H", "I", "J", "K", "L", "M",
               "N", "O", "P", "Q", "R", "S", "T", "U", "V", "W", "X", "Y", "Z">>
LowerCase == <<"a", "b", "c", "d", "e", "f", "g", "h", "i", "j", "k", "l", "m",
               "n", "o", "p", "q", "r", "s", "t", "u", "v", "w", "x", "y", "z">>
char_lower(c) ==
  IF \E k \in 1..26 : UpperCase[k] = c
  THEN LowerCase[CHOOSE k \in 1..26 : UpperCase[k] = c]
  ELSE c

\* t.lower()
str_lower(t) == [i \in 1..Len(t) |-> char_lower(t[i])]

\* t.strip(): t without its leading and trailing whitespace
str_strip(t) ==
  IF \A i \in 1..Len(t) : IsSpace(t[i]) THEN <<>>
  ELSE LET first == CHOOSE i \in 1..Len(t) :
                      ~IsSpace(t[i]) /\ \A j \in 1..(i - 1) : IsSpace(t[j])
           last  == CHOOSE i \in 1..Len(t) :
                      ~IsSpace(t[i]) /\ \A j \in (i + 1)..Len(t) : IsSpace(t[j])
       IN SubSeq(t, first, last)

---------------------------------------------------------------------------
(* pineconeupsert.py: configuration *)

\* max_length=500 of split_text and chunk_size=500 of embed_text_chunks
DefaultMaxLength == 500
DefaultChunkSize == 500

UpsertDefaultModel == "text-embedding-3-small"
UpsertNamespace == "ns1"

\* st.secrets.get("OPENAI_MODEL", default)
secrets_get(value, default) == IF value = Unset THEN default ELSE value

\* openai_model of pineconeupsert.py
upsert_openai_model(secret) == secrets_get(secret, UpsertDefaultModel)

---------------------------------------------------------------------------
(* pineconeupsert.py: split_text *)

\* range(0, n, step) cut to the full steps
range_step_floor(n, step) == [k \in 1..(n \div step) |-> (k - 1) * step]

\* the values of range(0, n, step), as a sequence
range_step(n, step) == [k \in 1..((n + step - 1) \div step) |-> (k - 1) * step]

\* words[i:i + max_length + 1]: each chunk runs one word into the next
slice_overlap(words, i, max_length) ==
  SubSeq(words, i + 1, Min(i + max_length + 1, Len(words)))

\* words[i:i + max_length], 0-based and clipped as Python slices are
slice(words, i, max_length) ==
  SubSeq(words, i + 1, Min(i + max_length, Len(words)))

\* how many chunks the generator yields once `words` is computed
chunk_count(words, max_length) == Len(range_step(Len(words), max_length))

\* the k-th value the generator yields: ' '.join(words[i:i + max_length])
chunk_at(words, max_length, k) ==
  str_join(<<" ">>, slice(words, range_step(Len(words), max_length)[k], max_length))

\* split_text with chunks twice as long as asked for
split_text_coarser(text, max_length) ==
  LET words == str_split(text)
  IN [k \in 1..chunk_count(words, 2 * max_length) |->
        chunk_at(words, 2 * max_length, k)]

\* list(split_text(text, max_length))
split_text(text, max_length) ==
  LET words == str_split(text)
  IN [k \in 1..chunk_count(words, max_length) |-> chunk_at(words, max_length, k)]

---------------------------------------------------------------------------
(* pineconeupsert.py: extraction and embedding *)

\* what pdfplumber gives for a path: an unreadable file makes open() raise,
\* a readable one has pages whose extract_text() is a str or None
Unreadable == [tag |-> "unreadable"]
Pdf(pages) == [tag |-> "pdf", pages |-> pages]
PageText(t) == [tag |-> "str", text |-> t]

\* page.extract_text() or ''
page_text_or_empty(page) == IF page.tag = "None" THEN <<>> ELSE page.text

\* extract_text_from_pdf(pdf_path): the pages' texts concatenated, "" when
\* anything raises
extract_text_from_pdf(content) ==
  IF content.tag = "unreadable" THEN <<>>
  ELSE str_join(<<>>, [p \in 1..Len(content.pages) |->
                         page_text_or_empty(content.pages[p])])

\* os.path.basename of a path given by its components
basename(path) == path[Len(path)]

\* the vector the embedding API computes: a function of model and input
Embedding(model, input) == [tag |-> "vec", model |-> model, input |-> input]

\* embed_text(text): the embedding, or None when the API call raised
embed_text(model, text, api_ok) ==
  IF api_ok THEN Embedding(model, text) ELSE None

\* the loop body without its `if embed:` test
collect_embedding_unfiltered(embs, embed) == Append(embs, embed)

\* one iteration of the loop of embed_text_chunks: `if embed: append`
collect_embedding(embs, embed) ==
  IF Truthy(embed) THEN Append(embs, embed) ELSE embs

\* vector_id numbering the records from 0
vector_id_zero_based(name, idx) == name \o "_chunk_" \o ToString(idx - 1)

\* f"{filename}_chunk_{idx}"
vector_id(name, idx) == name \o "_chunk_" \o ToString(idx)

\* the record built for the idx-th embedding (idx counts from 1)
make_vector(name, idx, embed, chunks) ==
  [id |-> vector_id(name, idx),
   values |-> embed,
   metadata |-> [filename |-> name, chunk_id |-> idx, text |-> chunks[idx]]]

\* the list `vectors` built from enumerate(embeddings, start=1)
prepare_vectors(name, embs, chunks) ==
  [idx \in 1..Len(embs) |-> make_vector(name, idx, embs[idx], chunks)]

\* an upsert that first deletes the stored records of the files it writes
index_upsert_replacing_file(idx, vecs, ns) ==
  LET names == {vecs[k].metadata.filename : k \in 1..Len(vecs)}
  IN {r \in idx : ~(r.namespace = ns /\ r.metadata.filename \in names)}
     \cup {[namespace |-> ns, id |-> vecs[k].id, values |-> vecs[k].values,
            metadata |-> vecs[k].metadata] : k \in 1..Len(vecs)}

\* the index after upsert(vectors, namespace): a record replaces the stored
\* record of the same namespace and id; of two records of one request with
\* the same id the later one stays
index_upsert(idx, vecs, ns) ==
  LET ids  == {vecs[k].id : k \in 1..Len(vecs)}
      last(id) == CHOOSE k \in 1..Len(vecs) :
                    vecs[k].id = id /\ \A j \in (k + 1)..Len(vecs) : vecs[j].id # id
  IN {r \in idx : ~(r.namespace = ns /\ r.id \in ids)}
     \cup {[namespace |-> ns, id |-> id, values |-> vecs[last(id)].values,
            metadata |-> vecs[last(id)].metadata] : id \in ids}

---------------------------------------------------------------------------
(* Inputs *)

SeqsUpTo(S, n) == UNION {[1..k -> S] : k \in 0..n}

Alphabet == {"a", "b", " ", "\n"}
Letters == <<"a", "b", "c">>

\* a text of n words, one space between two words; the letters cycle with
\* period 3, so the 500-word chunks of one text differ from each other
GenText(n) ==
  [i \in 1..(2 * n - 1) |->
     IF i % 2 = 0 THEN " " ELSE Letters[(((i + 1) \div 2) % 3) + 1]]

\* a scanned page followed by a blank one, a text of one word, and a text of
\* one word more than a chunk holds
PdfContents ==
  {Pdf(<<None, PageText(<<" ", "\n">>)>>),
   Pdf(<<PageText(GenText(1))>>),
   Pdf(<<PageText(GenText(DefaultMaxLength + 1))>>)}

Paths == {<<"uploads", "a.pdf">>, <<"uploads", "b.pdf">>, <<"tmp", "a.pdf">>}

\* a caller that passes a list of paths (upload_pdfs, the Streamlit upload,
\* the command line of pineconeupsert.py)
BatchCall == [kind |-> "batch"]

\* app.config['UPLOAD_FOLDER']
UPLOAD_FOLDER == "uploads"

\* POST requests to /upload: without a file part, with an empty file name,
\* or with a file; the names are ones secure_filename leaves as they are
UploadRequests ==
  {[kind |-> "no_file_part"]}
  \cup {[kind |-> "file", filename |-> "", content |-> Unreadable]}
  \cup {[kind |-> "file", filename |-> n, content |-> c] :
           n \in {"a.pdf", "b.pdf"}, c \in PdfContents \cup {Unreadable}}

ModelSettings == {Unset, "text-embedding-3-large"}

---------------------------------------------------------------------------
(* States in which a part of the program is not running *)

SplitIdle ==
  /\ sp_text = <<>>
  /\ sp_max_length = 1
  /\ sp_chunks = <<>>
  /\ sp_pc = "idle"

IngestIdle ==
  /\ request = BatchCall
  /\ http_response = None
  /\ disk = [p \in Paths |-> Unreadable]
  /\ file_paths = <<>>
  /\ pc = "idle"
  /\ fi = 1
  /\ filename = ""
  /\ pdf_text = <<>>
  /\ text_chunks = <<>>
  /\ gen_words = <<>>
  /\ ci = 0
  /\ embeddings = <<>>
  /\ vectors = <<>>
  /\ embed_calls = <<>>
  /\ upsert_calls = <<>>
  /\ processing_log = <<>>
  /\ index = {}

QueryIdle ==
  /\ entry = "none"
  /\ env_model = Unset
  /\ user_input = <<>>
  /\ q_pc = "idle"
  /\ embedding = None
  /\ search_results = None
  /\ mi = 1
  /\ relevant_insights = <<>>
  /\ relevant_references = <<>>
  /\ q_embed_calls = <<>>
  /\ query_calls = <<>>
  /\ llm_calls = <<>>
  /\ shown = <<>>

---------------------------------------------------------------------------
(* split_text on its own *)

InitSplit ==
  /\ sp_text \in SeqsUpTo(Alphabet, MaxTextLen)
  /\ sp_max_length \in 1..MaxChunkLen
  /\ sp_chunks = <<>>
  /\ sp_pc = "call"
  /\ secrets_model = Unset
  /\ IngestIdle
  /\ QueryIdle

\* chunks = list(split_text(text, max_length))
SplitCall ==
  /\ sp_pc = "call"
  /\ sp_chunks' = split_text(sp_text, sp_max_length)
  /\ sp_pc' = "done"
  /\ UNCHANGED <<sp_text, sp_max_length, ingestVars, queryVars>>

NextSplit == SplitCall

SpecSplit == InitSplit /\ [][NextSplit]_vars

---------------------------------------------------------------------------
(* embed_and_upsert_pdfs(file_paths) *)

Init ==
  /\ SplitIdle
  /\ QueryIdle
  /\ secrets_model = Unset
  /\ http_response = None
  /\ \/ /\ request = BatchCall
        /\ file_paths \in SeqsUpTo(Paths, MaxFiles)
        /\ disk \in [Paths -> PdfContents \cup {Unreadable}]
        /\ \A p \in Paths :
             (\A k \in 1..Len(file_paths) : file_paths[k] # p) => disk[p] = Unreadable
        /\ pc = "loop"
     \/ /\ request \in UploadRequests
        /\ file_paths = <<>>
        /\ disk = [p \in Paths |-> Unreadable]
        /\ pc = "route"
  /\ fi = 1
  /\ filename = ""
  /\ pdf_text = <<>>
  /\ text_chunks = <<>>
  /\ gen_words = <<>>
  /\ ci = 0
  /\ embeddings = <<>>
  /\ vectors = <<>>
  /\ embed_calls = <<>>
  /\ upsert_calls = <<>>
  /\ processing_log = <<>>
  /\ index = {}

\* app.py 25-40: upload_file up to its call of embed_and_upsert_pdfs: 400
\* without a file part or file name, else the file is saved under
\* UPLOAD_FOLDER and embed_and_upsert_pdfs([file_path]) is called
UploadFile ==
  /\ pc = "route"
  /\ IF request.kind = "no_file_part"
     THEN /\ http_response' = [status |-> 400, body |-> [error |-> "No file part"]]
          /\ pc' = "responded"
          /\ UNCHANGED <<disk, file_paths>>
     ELSE IF request.filename = ""
     THEN /\ http_response' = [status |-> 400, body |-> [error |-> "No selected file"]]
          /\ pc' = "responded"
          /\ UNCHANGED <<disk, file_paths>>
     ELSE LET file_path == <<UPLOAD_FOLDER, request.filename>>
          IN /\ disk' = [disk EXCEPT ![file_path] = request.content]
             /\ file_paths' = <<file_path>>
             /\ pc' = "loop"
             /\ UNCHANGED http_response
  /\ UNCHANGED <<splitVars, queryVars, secrets_model, request, fi, filename, pdf_text,
                 text_chunks, gen_words, ci, embeddings, vectors, embed_calls,
                 upsert_calls, processing_log, index>>

\* lines 133-149, 117, 94: next file; extract; skip a file without text;
\* split; embed_text_chunks starts the generator, which splits the words
IterateFile ==
  /\ pc = "loop"
  /\ fi <= Len(file_paths)
  /\ LET text == extract_text_from_pdf(disk[file_paths[fi]])
     IN /\ filename' = basename(file_paths[fi])
        /\ processing_log' = Append(processing_log, basename(file_paths[fi]))
        /\ pdf_text' = text
        /\ IF str_strip(text) = <<>>
           THEN /\ fi' = fi + 1
                /\ UNCHANGED <<pc, text_chunks, gen_words, ci, embeddings>>
           ELSE /\ text_chunks' = split_text(text, DefaultMaxLength)
                /\ gen_words' = str_split(text)
                /\ pc' = "embed"
                /\ ci' = 0
                /\ embeddings' = <<>>
                /\ UNCHANGED fi
  /\ UNCHANGED <<splitVars, queryVars, secrets_model, request, http_response,
                 disk, file_paths, vectors,
                 embed_calls, upsert_calls, index>>

\* EmbedChunk with a retry: a chunk whose call failed is sent again
EmbedChunkRetry ==
  /\ pc = "embed"
  /\ ci < chunk_count(gen_words, DefaultChunkSize)
  /\ \E api_ok \in BOOLEAN :
       LET chunk == chunk_at(gen_words, DefaultChunkSize, ci + 1)
           model == upsert_openai_model(secrets_model)
           embed == embed_text(model, chunk, api_ok)
       IN /\ embed_calls' = Append(embed_calls,
                 [file |-> fi, model |-> model, input |-> chunk, ok |-> api_ok])
          /\ embeddings' = collect_embedding(embeddings, embed)
          /\ ci' = IF api_ok THEN ci + 1 ELSE ci
  /\ UNCHANGED <<splitVars, queryVars, secrets_model, request, http_response,
                 disk, file_paths, pc, fi, filename,
                 pdf_text, text_chunks, gen_words, vectors, upsert_calls,
                 processing_log, index>>

\* lines 95-96, 119-122: the generator yields the next chunk and
\* embed_text_chunks embeds it; the API call succeeds or raises
EmbedChunk ==
  /\ pc = "embed"
  /\ ci < chunk_count(gen_words, DefaultChunkSize)
  /\ \E api_ok \in BOOLEAN :
       LET chunk == chunk_at(gen_words, DefaultChunkSize, ci + 1)
           model == upsert_openai_model(secrets_model)
           embed == embed_text(model, chunk, api_ok)
       IN /\ embed_calls' = Append(embed_calls,
                 [file |-> fi, model |-> model, input |-> chunk, ok |-> api_ok])
          /\ embeddings' = collect_embedding(embeddings, embed)
  /\ ci' = ci + 1
  /\ UNCHANGED <<splitVars, queryVars, secrets_model, request, http_response,
                 disk, file_paths, pc, fi, filename,
                 pdf_text, text_chunks, gen_words, vectors, upsert_calls,
                 processing_log, index>>

\* EndEmbed without the `if not embeddings: continue` of lines 150-152
EndEmbedNoSkip ==
  /\ pc = "embed"
  /\ ci = chunk_count(gen_words, DefaultChunkSize)
  /\ vectors' = prepare_vectors(filename, embeddings, text_chunks)
  /\ pc' = "upsert"
  /\ UNCHANGED <<splitVars, queryVars, secrets_model, request, http_response,
                 disk, file_paths, fi, filename,
                 pdf_text, text_chunks, gen_words, ci, embeddings, embed_calls,
                 upsert_calls, processing_log, index>>

\* lines 123, 150-168: embed_text_chunks returns; skip a file without
\* embeddings, else prepare the vectors (text_chunks[idx - 1] raises
\* IndexError past the end of text_chunks)
EndEmbed ==
  /\ pc = "embed"
  /\ ci = chunk_count(gen_words, DefaultChunkSize)
  /\ IF embeddings = <<>>
     THEN /\ fi' = fi + 1
          /\ pc' = "loop"
          /\ UNCHANGED vectors
     ELSE IF Len(embeddings) > Len(text_chunks)
     THEN /\ pc' = "raised"
          /\ UNCHANGED <<fi, vectors>>
     ELSE /\ vectors' = prepare_vectors(filename, embeddings, text_chunks)
          /\ pc' = "upsert"
          /\ UNCHANGED fi
  /\ UNCHANGED <<splitVars, queryVars, secrets_model, request, http_response,
                 disk, file_paths, filename, pdf_text,
                 text_chunks, gen_words, ci, embeddings, embed_calls, upsert_calls,
                 processing_log, index>>

\* Upsert without the try/except of lines 171-179: the exception leaves
\* embed_and_upsert_pdfs
UpsertUncaught ==
  /\ pc = "upsert"
  /\ \E api_ok \in BOOLEAN :
       /\ upsert_calls' = Append(upsert_calls,
             [file |-> fi, vectors |-> vectors, namespace |-> UpsertNamespace,
              ok |-> api_ok])
       /\ index' = IF api_ok THEN index_upsert(index, vectors, UpsertNamespace)
                   ELSE index
       /\ fi' = IF api_ok THEN fi + 1 ELSE fi
       /\ pc' = IF api_ok THEN "loop" ELSE "raised"
  /\ UNCHANGED <<splitVars, queryVars, secrets_model, request, http_response,
                 disk, file_paths, filename, pdf_text,
                 text_chunks, gen_words, ci, embeddings, vectors, embed_calls,
                 processing_log>>

\* lines 171-179: the upsert of the file's vectors; an exception is logged
Upsert ==
  /\ pc = "upsert"
  /\ \E api_ok \in BOOLEAN :
       /\ upsert_calls' = Append(upsert_calls,
             [file |-> fi, vectors |-> vectors, namespace |-> UpsertNamespace,
              ok |-> api_ok])
       /\ index' = IF api_ok THEN index_upsert(index, vectors, UpsertNamespace)
                   ELSE index
  /\ fi' = fi + 1
  /\ pc' = "loop"
  /\ UNCHANGED <<splitVars, queryVars, secrets_model, request, http_response,
                 disk, file_paths, filename, pdf_text,
                 text_chunks, gen_words, ci, embeddings, vectors, embed_calls,
                 processing_log>>

\* the for loop is exhausted: embed_and_upsert_pdfs returns None
Return ==
  /\ pc = "loop"
  /\ fi > Len(file_paths)
  /\ pc' = "done"
  /\ UNCHANGED <<splitVars, queryVars, secrets_model, request, http_response,
                 disk, file_paths, fi, filename,
                 pdf_text, text_chunks, gen_words, ci, embeddings, vectors,
                 embed_calls, upsert_calls, processing_log, index>>

\* app.py 39-44: embed_and_upsert_pdfs returned and upload_file answers 200,
\* or it raised and upload_file answers 500
UploadRespond ==
  /\ request.kind = "file"
  /\ pc \in {"done", "raised"}
  /\ http_response' =
       IF pc = "done"
       THEN [status |-> 200,
             body |-> [success |-> request.filename \o " uploaded successfully"]]
       ELSE [status |-> 500, body |-> [error |-> "exception"]]
  /\ pc' = "responded"
  /\ UNCHANGED <<splitVars, queryVars, secrets_model, request, disk, file_paths, fi,
                 filename, pdf_text, text_chunks, gen_words, ci, embeddings, vectors,
                 embed_calls, upsert_calls, processing_log, index>>

Next ==
  UploadFile \/ IterateFile \/ EmbedChunk \/ EndEmbed \/ Upsert \/ Return
  \/ UploadRespond

Spec == Init /\ [][Next]_vars

---------------------------------------------------------------------------
(* pinecone_query_last_working.py and pinecone_query.py *)

Entries == {"flask_query", "st_search", "st_chatbot", "cli_last_working", "cli_query"}

\* the module whose embed_query and query_pinecone an entry point runs:
\* app.py and streamlit_app.py import pinecone_query_last_working, each
\* query module's command line runs its own
query_module(e) ==
  IF e = "cli_query" THEN "pinecone_query" ELSE "pinecone_query_last_working"

\* os.getenv("OPENAI_MODEL", default)
getenv(value, default) == IF value = Unset THEN default ELSE value

\* openai_model of a query module
query_openai_model(module, secret, env) ==
  IF module = "pinecone_query"
  THEN getenv(env, "text-embedding-ada-002")
  ELSE secrets_get(secret, "text-embedding-3-small")

\* namespace of a query module
query_namespace(module) ==
  IF module = "pinecone_query" THEN "ns1" ELSE "ns1"

\* embed_query(query_text): the embedding, or None when the API call raised
embed_query(model, query_text, api_ok) ==
  IF api_ok THEN Embedding(model, query_text) ELSE None

\* top_k=5 in the signature of query_pinecone
QueryDefaultTopK == 5

\* top_k each entry point passes to query_pinecone
top_k_of(e) == IF e = "st_chatbot" THEN 3 ELSE 5

\* query_request returning the vector values too
query_request_with_values(module, vector, top_k) ==
  [vector |-> vector, top_k |-> top_k, include_values |-> TRUE,
   include_metadata |-> TRUE, namespace |-> query_namespace(module)]

\* the request query_pinecone sends to the index
query_request(module, vector, top_k) ==
  [vector |-> vector, top_k |-> top_k, include_values |-> FALSE,
   include_metadata |-> TRUE, namespace |-> query_namespace(module)]

\* metadata.get(key, default)
meta_get(md, key, default) == IF key \in DOMAIN md THEN md[key] ELSE default

---------------------------------------------------------------------------
(* What the index and the chat model can answer *)

\* similarity scores in tenths: 0.3, 0.4 and 0.5
ScoreTenths == {3, 4, 5}

\* the k-th stored record, as upsert writes it: chunks of a.pdf and b.pdf
StoredRecord(k) ==
  LET name == IF k % 2 = 1 THEN "a.pdf" ELSE "b.pdf"
      idx  == (k + 1) \div 2
  IN [id |-> vector_id(name, idx),
      metadata |-> [filename |-> name, chunk_id |-> idx, text |-> GenText(k)]]

\* a match of a response: a stored record with its score, values excluded
Match(k, score) ==
  [id |-> StoredRecord(k).id, score |-> score, metadata |-> StoredRecord(k).metadata]

Response(matches) == [tag |-> "response", matches |-> matches]

\* the responses to a query for top_k matches: at most top_k distinct records,
\* best score first
Responses(top_k) ==
  LET n == Min(top_k, MaxRecords)
      picks == UNION {[1..len -> (1..MaxRecords) \X ScoreTenths] : len \in 0..n}
  IN {Response([i \in 1..Len(p) |-> Match(p[i][1], p[i][2])]) :
        p \in {q \in picks :
                 /\ \A i, j \in 1..Len(q) : q[i][1] = q[j][1] => i = j
                 /\ \A i \in 1..(Len(q) - 1) : q[i][2] >= q[i + 1][2]}}

UserInputs == {<<>>, <<"q", "?">>}

\* message.content of a relevance evaluation
EvaluationContents ==
  {<<"t", "r", "u", "e">>, <<" ", "T", "r", "u", "e", "\n">>,
   <<"f", "a", "l", "s", "e">>, <<"T", "r", "u", "e", ".">>}

\* message.content of an extraction
ExtractionContents == {<<" ", "x", " ", "y", "\n">>, <<" ">>}

\* message.content of an answer
AnswerContents == {<<"o", "k", "\n">>}

\* what a chat-completion call can do: raise, or return a message content
Raises == [tag |-> "raises"]
Returns(content) == [tag |-> "returns", content |-> content]
LLMOutcomes(contents) == {Raises} \cup {Returns(c) : c \in contents}

---------------------------------------------------------------------------
(* streamlit_app.py: the Chatbot prompts *)

\* a prompt is the list of the pieces its f-string concatenates: text of the
\* program (S) and values that are sequences of characters (C)
S(str) == [s |-> str]
C(chars) == [c |-> chars]

\* result['score'] > 0.4, the score in tenths
RelevanceThresholdTenths == 4

\* `>=` in the place of `>`
score_passes_ge(score) == score >= RelevanceThresholdTenths

score_passes(score) == score > RelevanceThresholdTenths

\* evaluation_result == "true"
is_true(content) == str_lower(str_strip(content)) = <<"t", "r", "u", "e">>

\* the stale `filename` of the logging loop of lines 109-112: the last match's
reference_of_stale(matches, m) ==
  meta_get(matches[Len(matches)].metadata, "filename", "Unknown Filename")

\* filename = result['metadata'].get('filename', 'Unknown Filename')
reference_of(matches, m) ==
  meta_get(matches[m].metadata, "filename", "Unknown Filename")

evaluation_prompt(question, text) ==
  <<S("You are an expert in evaluating the relevance of documents in an index against a user's query. Please respond with 'true' if the text is useful for answering the user's query, otherwise respond with 'false'. Query: "),
    C(question), S("\nText: "), C(text)>>

extraction_prompt(question, text) ==
  <<S("You are an expert in extracting relevant information from documents. Please extract the parts of the text that are most relevant to the query. Query: "),
    C(question), S("\nText: "), C(text)>>

EnhancedHeader ==
  "You are an expert in making complex concepts easy to understand. You are also a top teacher with a great command of the English language. Your task is to explain the following based on the user's query and relevant search results: "

AnswerSystem ==
  "You are an expert in making complex concepts easy to understand. You are also a top teacher with a great command of the English language."

\* f"{i+1}. {insight} (Filename: {relevant_references[i]}) ", i 0-based
insight_item(i, insight, ref) ==
  <<S(ToString(i + 1)), S(". "), C(insight), S(" (Filename: "), S(ref), S(") ")>>

\* the enhanced prompt with the first insight only
enhanced_prompt_first_only(question, insights, refs) ==
  <<S(EnhancedHeader), C(question), S(". Here are some relevant insights: ")>>
  \o insight_item(0, insights[1], refs[1])

\* lines 186-193
enhanced_prompt(question, insights, refs) ==
  <<S(EnhancedHeader), C(question), S(". Here are some relevant insights: ")>>
  \o Flatten([k \in 1..Len(insights) |-> insight_item(k - 1, insights[k], refs[k])])

\* a chat-completion request; purpose and match say which call site of the
\* handler made it, response is what came back
llm_call(purpose, m, model, max_tokens, system, user, response) ==
  [purpose |-> purpose, match |-> m, model |-> model, max_tokens |-> max_tokens,
   system |-> system, user |-> user, response |-> response]

ErrorQuerying == [kind |-> "error", text |-> "An error occurred while querying the index."]

---------------------------------------------------------------------------
(* The query entry points *)

InitQuery ==
  /\ SplitIdle
  /\ IngestIdle
  /\ secrets_model \in ModelSettings
  /\ env_model \in ModelSettings
  /\ entry \in Entries
  /\ user_input \in UserInputs
  /\ entry \in {"cli_last_working", "cli_query"} => user_input # <<>>
  /\ q_pc = "start"
  /\ embedding = None
  /\ search_results = None
  /\ mi = 1
  /\ relevant_insights = <<>>
  /\ relevant_references = <<>>
  /\ q_embed_calls = <<>>
  /\ query_calls = <<>>
  /\ llm_calls = <<>>
  /\ shown = <<>>

\* what an entry point shows for an empty question
EmptyInputMessage(e) ==
  IF e = "flask_query" THEN [kind |-> "flash", text |-> "Please enter a query."]
  ELSE IF e = "st_search" THEN [kind |-> "warning", text |-> "Please enter a search query."]
  ELSE [kind |-> "warning", text |-> "Please enter a message."]

\* what an entry point shows when embed_query returned None
NoEmbeddingMessage(e) ==
  IF e = "flask_query" THEN [kind |-> "flash", text |-> "Failed to generate embedding for the query."]
  ELSE IF e = "st_search" THEN [kind |-> "error", text |-> "Failed to generate embedding for the query."]
  ELSE [kind |-> "log_error", text |-> "Failed to generate embedding for the query."]

\* what an entry point shows when query_pinecone returned None
NoResponseMessage(e) ==
  IF e = "flask_query" THEN [kind |-> "flash", text |-> "Failed to retrieve query results from Pinecone."]
  ELSE IF e = "st_search" THEN [kind |-> "error", text |-> "Failed to retrieve query results from Pinecone."]
  ELSE [kind |-> "log_error", text |-> "Failed to retrieve query results from Pinecone."]

\* app.py 86-95, streamlit_app.py 57-61 and 95-97, the query modules' main:
\* the empty-question check and the call of embed_query
StartEntry ==
  /\ q_pc = "start"
  /\ IF user_input = <<>>
     THEN /\ shown' = Append(shown, EmptyInputMessage(entry))
          /\ q_pc' = "done"
          /\ UNCHANGED <<embedding, q_embed_calls>>
     ELSE \E api_ok \in BOOLEAN :
            LET model == query_openai_model(query_module(entry), secrets_model, env_model)
                embed == embed_query(model, user_input, api_ok)
            IN /\ q_embed_calls' = Append(q_embed_calls,
                     [model |-> model, input |-> user_input, ok |-> api_ok])
               /\ embedding' = embed
               /\ IF entry = "st_chatbot" \/ Truthy(embed)
                  THEN /\ q_pc' = "query"
                       /\ UNCHANGED shown
                  ELSE /\ q_pc' = "done"
                       /\ shown' = Append(shown, NoEmbeddingMessage(entry))
  /\ UNCHANGED <<splitVars, ingestVars, entry, env_model, user_input,
                 search_results, mi, relevant_insights, relevant_references,
                 query_calls, llm_calls>>

\* query_pinecone(embedding, top_k): the response of the index, or None
\* when the call raised
query_pinecone(response) == IF response = Raises THEN None ELSE response

\* query_pinecone and what each entry point does with its result, up to its
\* next call of the chat model
QueryIndex ==
  /\ q_pc = "query"
  /\ \E outcome \in {Raises} \cup
                    (IF Truthy(embedding) THEN Responses(top_k_of(entry)) ELSE {}) :
       LET result == query_pinecone(outcome)
       IN /\ query_calls' = Append(query_calls,
                 query_request(query_module(entry), embedding, top_k_of(entry))
                   @@ [response |-> outcome])
          /\ search_results' = result
          /\ IF entry = "st_chatbot"
             THEN IF ~Truthy(result) \/ result.matches = <<>>
                  THEN /\ shown' = Append(shown,
                            [kind |-> "error", text |-> "No results found in the index."])
                       /\ q_pc' = "done"
                  ELSE /\ q_pc' = "relevance"
                       /\ UNCHANGED shown
             ELSE IF ~Truthy(result)
                  THEN /\ shown' = Append(shown, NoResponseMessage(entry))
                       /\ q_pc' = "done"
                  ELSE IF entry = "cli_query" /\ result.matches # <<>>
                  THEN /\ shown' = Append(shown,
                            [kind |-> "results", matches |-> result.matches])
                       /\ q_pc' = "answer"
                  ELSE /\ shown' = Append(shown,
                            [kind |-> "results", matches |-> result.matches])
                       /\ q_pc' = "done"
  /\ mi' = 1
  /\ relevant_insights' = <<>>
  /\ relevant_references' = <<>>
  /\ UNCHANGED <<splitVars, ingestVars, entry, env_model, user_input, embedding,
                 q_embed_calls, llm_calls>>

\* pinecone_query.py 162-180 and its main: generate_answer(prepare_ai_prompt(...))
CliAnswer ==
  /\ q_pc = "answer"
  /\ \E outcome \in LLMOutcomes(AnswerContents) :
       /\ llm_calls' = Append(llm_calls,
             llm_call("cli_answer", 0, "gpt-4", 500, "You are a helpful assistant.",
                      <<S("prepare_ai_prompt"), C(user_input)>>, outcome))
       /\ shown' = Append(shown,
             IF outcome = Raises
             THEN [kind |-> "print", text |-> "Failed to generate an answer using the AI."]
             ELSE [kind |-> "print", text |-> "=== AI Generated Answer ===",
                   value |-> str_strip(outcome.content)])
  /\ q_pc' = "done"
  /\ UNCHANGED <<splitVars, ingestVars, entry, env_model, user_input, embedding,
                 search_results, mi, relevant_insights, relevant_references,
                 q_embed_calls, query_calls>>

---------------------------------------------------------------------------
(* streamlit_app.py: the Chatbot relevance loop and answer *)

Matches == search_results.matches

\* lines 117-119: a match whose score does not pass is skipped
SkipMatch ==
  /\ q_pc = "relevance"
  /\ mi <= Len(Matches)
  /\ ~score_passes(Matches[mi].score)
  /\ mi' = mi + 1
  /\ UNCHANGED <<splitVars, ingestVars, entry, env_model, user_input, q_pc,
                 embedding, search_results, relevant_insights,
                 relevant_references, q_embed_calls, query_calls, llm_calls, shown>>

\* EvaluateMatch with a try/except of its own around the evaluation call: a
\* raising call counts as "not relevant" and the loop goes on
EvaluateMatchSwallowing ==
  /\ q_pc = "relevance"
  /\ mi <= Len(Matches)
  /\ score_passes(Matches[mi].score)
  /\ \E outcome \in LLMOutcomes(EvaluationContents) :
       /\ llm_calls' = Append(llm_calls,
             llm_call("evaluate", mi, "gpt-4o", 10,
                      "You are an expert in evaluating text relevance.",
                      evaluation_prompt(user_input, Matches[mi].metadata.text),
                      outcome))
       /\ IF outcome # Raises /\ is_true(outcome.content)
          THEN /\ q_pc' = "extract"
               /\ UNCHANGED <<mi, shown>>
          ELSE /\ mi' = mi + 1
               /\ UNCHANGED <<q_pc, shown>>
  /\ UNCHANGED <<splitVars, ingestVars, entry, env_model, user_input, embedding,
                 search_results, relevant_insights, relevant_references,
                 q_embed_calls, query_calls>>

\* lines 119-144: the relevance evaluation of a match whose score passes
EvaluateMatch ==
  /\ q_pc = "relevance"
  /\ mi <= Len(Matches)
  /\ score_passes(Matches[mi].score)
  /\ \E outcome \in LLMOutcomes(EvaluationContents) :
       /\ llm_calls' = Append(llm_calls,
             llm_call("evaluate", mi, "gpt-4o", 10,
                      "You are an expert in evaluating text relevance.",
                      evaluation_prompt(user_input, Matches[mi].metadata.text),
                      outcome))
       /\ IF outcome = Raises
          THEN /\ shown' = Append(shown, ErrorQuerying)
               /\ q_pc' = "done"
               /\ UNCHANGED mi
          ELSE IF is_true(outcome.content)
          THEN /\ q_pc' = "extract"
               /\ UNCHANGED <<mi, shown>>
          ELSE /\ mi' = mi + 1
               /\ UNCHANGED <<q_pc, shown>>
  /\ UNCHANGED <<splitVars, ingestVars, entry, env_model, user_input, embedding,
                 search_results, relevant_insights, relevant_references,
                 q_embed_calls, query_calls>>

\* lines 145-162: the extraction for a match evaluated "true"
ExtractMatch ==
  /\ q_pc = "extract"
  /\ \E outcome \in LLMOutcomes(ExtractionContents) :
       /\ llm_calls' = Append(llm_calls,
             llm_call("extract", mi, "gpt-4o", 150,
                      "You are an expert in extracting information.",
                      extraction_prompt(user_input, Matches[mi].metadata.text),
                      outcome))
       /\ IF outcome = Raises
          THEN /\ shown' = Append(shown, ErrorQuerying)
               /\ q_pc' = "done"
               /\ UNCHANGED <<mi, relevant_insights, relevant_references>>
          ELSE /\ relevant_insights' = Append(relevant_insights, str_strip(outcome.content))
               /\ relevant_references' =
                    Append(relevant_references, reference_of(Matches, mi))
               /\ mi' = mi + 1
               /\ q_pc' = "relevance"
               /\ UNCHANGED shown
  /\ UNCHANGED <<splitVars, ingestVars, entry, env_model, user_input, embedding,
                 search_results, q_embed_calls, query_calls>>

\* "- ref" for every reference
reference_lines(refs) ==
  [k \in 1..Len(refs) |-> [kind |-> "write", text |-> "- ", value |-> refs[k]]]

\* lines 164-222: the loop is over; the general answer without insights, else
\* the answer to the enhanced prompt followed by the references
ComposeAnswer ==
  /\ q_pc = "relevance"
  /\ mi > Len(Matches)
  /\ \E outcome \in LLMOutcomes(AnswerContents) :
       LET general == relevant_insights = <<>>
           user == IF general THEN <<C(user_input)>>
                   ELSE enhanced_prompt(user_input, relevant_insights,
                                        relevant_references)
           info == IF general
                   THEN <<[kind |-> "info", text |->
                           "No suitable data was found in the index. Providing a general answer."]>>
                   ELSE <<>>
           answer == [kind |-> "write", text |-> "AI:",
                      value |-> str_strip(outcome.content)]
       IN /\ llm_calls' = Append(llm_calls,
                 llm_call("answer", 0, "gpt-4o", 300, AnswerSystem, user, outcome))
          /\ shown' =
               IF outcome = Raises THEN shown \o info \o <<ErrorQuerying>>
               ELSE IF general THEN shown \o info \o <<answer>>
               ELSE shown \o <<answer, [kind |-> "write", text |-> "# References"]>>
                          \o reference_lines(relevant_references)
  /\ q_pc' = "done"
  /\ UNCHANGED <<splitVars, ingestVars, entry, env_model, user_input, embedding,
                 search_results, mi, relevant_insights, relevant_references,
                 q_embed_calls, query_calls>>

NextQuery ==
  StartEntry \/ QueryIndex \/ CliAnswer \/ SkipMatch \/ EvaluateMatch
    \/ ExtractMatch \/ ComposeAnswer

SpecQuery == InitQuery /\ [][NextQuery]_vars

---------------------------------------------------------------------------
(* Properties of split_text (SpecSplit) *)

\* the words of every chunk, chunk after chunk
WordsOfChunks(chunks) ==
  Flatten([k \in 1..Len(chunks) |-> str_split(chunks[k])])

RECURSIVE SumLens(_)
SumLens(ss) == IF ss = <<>> THEN 0 ELSE Len(Head(ss)) + SumLens(Tail(ss))

\* the least q with q * m >= n
Ceil(n, m) == CHOOSE q \in 0..n : q * m >= n /\ \A r \in 0..(q - 1) : r * m < n

\* C3: the words of the chunks, concatenated in order, are exactly the words
\* of the text, and the chunks have together as many words as the text, so no
\* word is lost, duplicated, reordered or put in two chunks.
SplitTextLosesNothing ==
  sp_pc = "done" =>
    /\ WordsOfChunks(sp_chunks) = str_split(sp_text)
    /\ SumLens([k \in 1..Len(sp_chunks) |-> str_split(sp_chunks[k])])
         = Len(str_split(sp_text))

\* a text with runs of whitespace and a word of two letters was split in
\* more than one chunk
SplitTextLosesNothingWitness ==
  /\ sp_pc = "done"
  /\ sp_text = <<"a", "b", "\n", " ", "b">>
  /\ sp_max_length = 1
  /\ Len(sp_chunks) = 2

\* C4: a text of n words gives ceil(n / max_length) chunks; every chunk but
\* the last has max_length words, the last has 1..max_length; no words, no
\* chunk.
SplitTextFixedSize ==
  sp_pc = "done" =>
    LET n == Len(str_split(sp_text))
        m == sp_max_length
        c == Len(sp_chunks)
    IN /\ c = Ceil(n, m)
       /\ \A k \in 1..(c - 1) : Len(str_split(sp_chunks[k])) = m
       /\ c > 0 => Len(str_split(sp_chunks[c])) \in 1..m
       /\ n = 0 => sp_chunks = <<>>

\* three words in chunks of two: a full chunk and a last chunk of one word
SplitTextFixedSizeWitness ==
  /\ sp_pc = "done"
  /\ Len(str_split(sp_text)) = 3
  /\ sp_max_length = 2
  /\ Len(sp_chunks) = 2
  /\ Len(str_split(sp_chunks[2])) = 1

---------------------------------------------------------------------------
(* Properties of embed_and_upsert_pdfs (Spec) *)

\* the embedding requests made for the file at position k of file_paths
EmbedCallsOf(k) == SelectSeq(embed_calls, LAMBDA c : c.file = k)
OkEmbedCallsOf(k) == SelectSeq(embed_calls, LAMBDA c : c.file = k /\ c.ok)
UpsertCallsOf(k) == SelectSeq(upsert_calls, LAMBDA c : c.file = k)

\* the loop of embed_text_chunks is over for the current file
EmbedLoopOver ==
  pc = "upsert" \/ (pc = "embed" /\ ci = chunk_count(gen_words, DefaultChunkSize))

\* C1 as claimed: every record sent to the index pairs the text of a chunk
\* with the embedding of that same chunk.
RecordPairsTextWithItsEmbedding ==
  \A c \in 1..Len(upsert_calls) :
    \A k \in 1..Len(upsert_calls[c].vectors) :
      upsert_calls[c].vectors[k].values.input
        = upsert_calls[c].vectors[k].metadata.text

\* C2 as claimed: embed_text_chunks returns as many embeddings as split_text
\* yields chunks, in chunk order, and the upsert batch has one record per chunk.
OneEmbeddingPerChunk ==
  /\ EmbedLoopOver =>
       /\ Len(embeddings) = Len(text_chunks)
       /\ \A k \in 1..Len(embeddings) : embeddings[k].input = text_chunks[k]
  /\ pc = "upsert" => Len(vectors) = Len(text_chunks)

\* What the code does instead: embed_text_chunks sends every chunk split_text
\* yields to the embedding API once, in chunk order, and returns the
\* embeddings of exactly the chunks whose call succeeded, in chunk order (never
\* more than there are chunks); the upsert batch has one record per returned
\* embedding.
OneEmbeddingPerEmbeddedChunk ==
  LET calls == EmbedCallsOf(fi)
      oks   == OkEmbedCallsOf(fi)
  IN /\ pc \in {"embed", "upsert"} =>
          /\ Len(calls) = ci
          /\ ci <= Len(text_chunks)
          /\ \A j \in 1..ci : calls[j].input = text_chunks[j]
          /\ embeddings = [j \in 1..Len(oks) |-> Embedding(oks[j].model, oks[j].input)]
     /\ EmbedLoopOver => ci = Len(text_chunks)
     /\ pc = "upsert" =>
          /\ Len(vectors) = Len(embeddings)
          /\ \A k \in 1..Len(vectors) : vectors[k].values = embeddings[k]

\* the loop is over for a file of two chunks of which only the second was
\* embedded
OneEmbeddingPerEmbeddedChunkWitness ==
  /\ pc = "upsert"
  /\ Len(text_chunks) = 2
  /\ Len(EmbedCallsOf(fi)) = 2
  /\ ~EmbedCallsOf(fi)[1].ok
  /\ Len(vectors) = 1

\* C5: embed_and_upsert_pdfs never raises; the files are taken in list order,
\* whatever happened to the files before, and when it returns every file of
\* the list has been taken.
FailureIsPerFile ==
  /\ pc # "raised"
  /\ Len(processing_log) <= Len(file_paths)
  /\ \A k \in 1..Len(processing_log) : processing_log[k] = basename(file_paths[k])
  /\ pc = "done" => Len(processing_log) = Len(file_paths)
  /\ pc = "loop" => fi = Len(processing_log) + 1
  /\ pc \in {"embed", "upsert"} => fi = Len(processing_log)

\* the function returned after a first file whose upsert raised and a second
\* file that was embedded and upserted
FailureIsPerFileWitness ==
  /\ pc = "done"
  /\ Len(upsert_calls) = 2
  /\ upsert_calls[1].file = 1 /\ ~upsert_calls[1].ok
  /\ upsert_calls[2].file = 2 /\ upsert_calls[2].ok

\* the file at position k has no text: unreadable, empty or whitespace only
NoText(k) ==
  LET text == extract_text_from_pdf(disk[file_paths[k]])
  IN \A i \in 1..Len(text) : IsSpace(text[i])

\* C10: at most one upsert call per file, into namespace "ns1", carrying one
\* record per embedding obtained for the file; a file without text causes no
\* embedding call and no upsert call, a file without any embedding no upsert
\* call.
OneBatchPerFile ==
  /\ \A i, j \in 1..Len(upsert_calls) :
       upsert_calls[i].file = upsert_calls[j].file => i = j
  /\ \A i \in 1..Len(upsert_calls) :
       /\ upsert_calls[i].namespace = "ns1"
       /\ Len(upsert_calls[i].vectors) = Len(OkEmbedCallsOf(upsert_calls[i].file))
       /\ Len(upsert_calls[i].vectors) >= 1
  /\ \A k \in 1..Len(processing_log) :
       /\ NoText(k) => EmbedCallsOf(k) = <<>> /\ UpsertCallsOf(k) = <<>>
       /\ (k < fi /\ ~NoText(k)) =>
            Len(UpsertCallsOf(k)) = (IF OkEmbedCallsOf(k) = <<>> THEN 0 ELSE 1)

\* after a blank file and a file whose two embedding calls both failed there
\* is no upsert call
OneBatchPerFileWitness ==
  /\ pc = "done"
  /\ Len(file_paths) = 2
  /\ NoText(1)
  /\ Len(EmbedCallsOf(2)) = 2
  /\ OkEmbedCallsOf(2) = <<>>
  /\ upsert_calls = <<>>

\* C11: there is no retry. Within one ingestion of a file every call to the
\* embedding API is for the next chunk of that file, in order, and moves on
\* to the chunk after it whether the call succeeded or failed; the embedding
\* loop ends only when every chunk has been sent; the upsert of a file is
\* called at most once and the loop moves to the next file whether it
\* succeeded or failed; the loop never goes back to an earlier file or chunk.
NoRetry ==
  [][ /\ embed_calls' # embed_calls =>
           /\ pc = "embed"
           /\ Len(EmbedCallsOf(fi)) = ci
           /\ ci < Len(text_chunks)
           /\ \E ok \in BOOLEAN :
                embed_calls' = Append(embed_calls,
                    [file |-> fi, model |-> upsert_openai_model(secrets_model),
                     input |-> text_chunks[ci + 1], ok |-> ok])
           /\ ci' = ci + 1
           /\ fi' = fi
      /\ (pc = "embed" /\ pc' # "embed") =>
           /\ ci = Len(text_chunks)
           /\ Len(EmbedCallsOf(fi)) = Len(text_chunks)
      /\ upsert_calls' # upsert_calls =>
           /\ pc = "upsert"
           /\ UpsertCallsOf(fi) = <<>>
           /\ Len(upsert_calls') = Len(upsert_calls) + 1
           /\ upsert_calls'[Len(upsert_calls')].file = fi
           /\ fi' = fi + 1
      /\ fi' >= fi
      /\ (fi' = fi /\ pc = "embed") => ci' >= ci
    ]_vars

\* a file was ingested with a failed embedding call and a failed upsert, and
\* the function returned: two chunks, two embedding calls, one upsert call
NoRetryWitness ==
  /\ pc = "done"
  /\ Len(EmbedCallsOf(1)) = 2
  /\ \E j \in 1..2 : ~EmbedCallsOf(1)[j].ok
  /\ Len(UpsertCallsOf(1)) = 1
  /\ ~UpsertCallsOf(1)[1].ok

\* C13 as claimed: /upload answers 200 only when the uploaded file's vectors
\* were written to the index, and answers 500 whenever the processing of the
\* file failed (no text extracted, no embeddings, or a raising upsert).
UploadAnswersByOutcome ==
  (request.kind = "file" /\ pc = "responded" /\ file_paths # <<>>) =>
     LET written == \E k \in 1..Len(upsert_calls) : upsert_calls[k].ok
     IN /\ http_response.status = 200 => written
        /\ ~written => http_response.status = 500

\* What the code does instead: embed_and_upsert_pdfs never raises, so a
\* request that carries a named file is always answered 200.
UploadAlwaysAnswersSuccess ==
  (request.kind = "file" /\ pc = "responded" /\ file_paths # <<>>) =>
     /\ http_response.status = 200
     /\ http_response.body =
          [success |-> request.filename \o " uploaded successfully"]

\* C14: text_chunks[idx - 1] is always in range. The generator inside
\* embed_text_chunks yields as many chunks as text_chunks holds (the same
\* text, the same chunk size), the embeddings collected so far are never more
\* than the chunks yielded, and each record built takes its text from an
\* existing chunk: building the records never raises.
ChunkIndexInRange ==
  /\ pc # "raised"
  /\ pc \in {"embed", "upsert"} =>
       /\ chunk_count(gen_words, DefaultChunkSize) = Len(text_chunks)
       /\ Len(embeddings) <= ci
       /\ ci <= Len(text_chunks)
  /\ pc = "upsert" =>
       /\ Len(vectors) = Len(embeddings)
       /\ \A idx \in 1..Len(vectors) :
            /\ idx - 1 \in 0..(Len(text_chunks) - 1)
            /\ vectors[idx].metadata.text = text_chunks[idx]

\* the extreme case: every chunk of a two-chunk file was embedded, so the
\* records were built up to the last index of text_chunks
ChunkIndexInRangeWitness ==
  /\ pc = "upsert"
  /\ Len(text_chunks) = 2
  /\ Len(embeddings) = Len(text_chunks)
  /\ vectors[2].metadata.text = text_chunks[2]

\* the last component of a path
LastComponent(path) == path[Len(path)]

\* file names whose ids could be mistaken for one another
IdNames == {"a.pdf", "b.pdf", "a.pdf_chunk_1", "a.pdf_chunk_", "a.pdf_"}

\* C16: record ids identify chunks. The records of one upsert have the ids
\* "<basename>_chunk_<idx>" for idx = 1..N in order, with metadata.chunk_id
\* = idx and metadata.filename = basename; no other (basename, idx) gives
\* the id of a record; two records of any two upserts have the same id
\* exactly when their files have the same basename and they have the same
\* idx, so files with different basenames share no id and two paths with
\* the same basename share the id of every idx both have.
RecordIdsIdentifyChunks ==
  /\ \A c \in 1..Len(upsert_calls) :
       LET call == upsert_calls[c]
           name == LastComponent(file_paths[call.file])
       IN \A idx \in 1..Len(call.vectors) :
            /\ call.vectors[idx].id = name \o "_chunk_" \o ToString(idx)
            /\ call.vectors[idx].metadata.chunk_id = idx
            /\ call.vectors[idx].metadata.filename = name
            /\ \A n \in IdNames, i \in 1..MaxIdx :
                 vector_id(n, i) = call.vectors[idx].id => (n = name /\ i = idx)
  /\ \A c, d \in 1..Len(upsert_calls) :
       \A i \in 1..Len(upsert_calls[c].vectors), j \in 1..Len(upsert_calls[d].vectors) :
         (upsert_calls[c].vectors[i].id = upsert_calls[d].vectors[j].id)
           <=> /\ LastComponent(file_paths[upsert_calls[c].file])
                    = LastComponent(file_paths[upsert_calls[d].file])
               /\ i = j

\* two different paths with the same basename were upserted, two records
\* and one record: the id of chunk 1 is shared and chunk 2 is there
RecordIdsIdentifyChunksWitness ==
  /\ pc = "done"
  /\ Len(upsert_calls) = 2
  /\ file_paths[1] # file_paths[2]
  /\ LastComponent(file_paths[1]) = LastComponent(file_paths[2])
  /\ Len(upsert_calls[1].vectors) = 2
  /\ upsert_calls[1].vectors[2].id = "a.pdf_chunk_2"
  /\ upsert_calls[2].vectors[1].id = upsert_calls[1].vectors[1].id

\* the stored form of a record of an upsert request
RecordOf(v) ==
  [namespace |-> UpsertNamespace, id |-> v.id, values |-> v.values,
   metadata |-> v.metadata]

\* the records a request wrote
RecordsOf(call) == {RecordOf(call.vectors[i]) : i \in 1..Len(call.vectors)}

\* the file name an upsert request is for
NameOf(call) == LastComponent(file_paths[call.file])

FileNames == {LastComponent(p) : p \in Paths}

\* the index records of a file name
StoredFor(n) == {r \in index : r.metadata.filename = n}

\* the successful upserts for a file name, by position in upsert_calls
OkUpsertsFor(n) ==
  {k \in 1..Len(upsert_calls) : upsert_calls[k].ok /\ NameOf(upsert_calls[k]) = n}

\* the step is a successful upsert of exactly the vectors that the latest
\* successful upsert for this file name wrote: the same file ingested again
\* with the same embedding results
ReingestsTheSame ==
  /\ pc = "upsert"
  /\ Len(upsert_calls') = Len(upsert_calls) + 1
  /\ upsert_calls'[Len(upsert_calls')].ok
  /\ OkUpsertsFor(filename) # {}
  /\ LET last == CHOOSE k \in OkUpsertsFor(filename) :
                    \A j \in OkUpsertsFor(filename) : j <= k
     IN upsert_calls[last].vectors = vectors

\* the index records of name n are exactly those of its latest successful upsert
OnlyLatestStored(n) ==
  OkUpsertsFor(n) # {} =>
    LET last == CHOOSE k \in OkUpsertsFor(n) : \A j \in OkUpsertsFor(n) : j <= k
    IN StoredFor(n) = RecordsOf(upsert_calls[last])

\* C17 as claimed: re-ingestion is idempotent and leaves no stale data.
\* Ingesting the same file again with the same embedding results leaves the
\* index unchanged, and after every step the index records of a file name
\* are exactly the records of the latest successful ingestion under it.
ReingestionLeavesNoStaleData ==
  [][ /\ ReingestsTheSame => index' = index
      /\ \A n \in FileNames : OnlyLatestStored(n)'
    ]_vars

\* the records of name n that the first k upsert requests leave in the
\* index: a successful request for n puts its records and keeps the earlier
\* ones whose chunk index it does not reach
RECURSIVE KeptFor(_, _)
KeptFor(n, k) ==
  IF k = 0 THEN {}
  ELSE LET call == upsert_calls[k]
           before == KeptFor(n, k - 1)
       IN IF call.ok /\ NameOf(call) = n
          THEN RecordsOf(call)
               \cup {r \in before : r.metadata.chunk_id > Len(call.vectors)}
          ELSE before

\* C17, amended: re-ingestion overwrites by id and deletes nothing.
\* Ingesting the same file again with the same embedding results leaves the
\* index unchanged; after every step the records of the latest successful
\* ingestion under a file name are all in the index, and beside them the
\* index still holds the records of earlier ingestions under that name whose
\* chunk index is beyond the number of records written since.
ReingestionOverwritesById ==
  [][ /\ ReingestsTheSame => index' = index
      /\ \A n \in FileNames :
           /\ StoredFor(n)' = KeptFor(n, Len(upsert_calls))'
           /\ \A k \in OkUpsertsFor(n)' :
                (\A j \in OkUpsertsFor(n)' : j <= k)
                  => RecordsOf(upsert_calls[k])' \subseteq index'
    ]_vars

\* a two-chunk a.pdf was ingested, then a one-word a.pdf from another
\* directory: chunk 1 is the new version's, chunk 2 is left from the old one
ReingestionOverwritesByIdWitness ==
  /\ pc = "done"
  /\ Len(upsert_calls) = 2
  /\ upsert_calls[1].ok /\ upsert_calls[2].ok
  /\ NameOf(upsert_calls[1]) = NameOf(upsert_calls[2])
  /\ Len(upsert_calls[1].vectors) = 2
  /\ Len(upsert_calls[2].vectors) = 1
  /\ Len(upsert_calls[2].vectors[1].metadata.text) = 1
  /\ RecordOf(upsert_calls[2].vectors[1]) \in index
  /\ RecordOf(upsert_calls[1].vectors[2]) \in index
  /\ Cardinality(index) = 2

\* the same path twice in the list, the same embedding results: the second
\* upsert wrote what was there
ReingestedTheSame ==
  /\ pc = "done"
  /\ Len(file_paths) = 2 /\ file_paths[1] = file_paths[2]
  /\ Len(upsert_calls) = 2
  /\ upsert_calls[1].ok /\ upsert_calls[2].ok
  /\ upsert_calls[1].vectors = upsert_calls[2].vectors
  /\ index = RecordsOf(upsert_calls[1])

---------------------------------------------------------------------------
(* Properties of the query entry points and the Chatbot handler (SpecQuery) *)

\* C6 as claimed: with OPENAI_MODEL unset everywhere, every query module
\* embeds the question with the model pineconeupsert.py embeds chunks with, and
\* queries the namespace embed_and_upsert_pdfs upserts into.
QueryEmbeddedAsChunksWere ==
  (secrets_model = Unset /\ env_model = Unset) =>
    /\ \A k \in 1..Len(q_embed_calls) :
         q_embed_calls[k].model = upsert_openai_model(secrets_model)
    /\ \A k \in 1..Len(query_calls) :
         query_calls[k].namespace = UpsertNamespace

IsChat == entry = "st_chatbot"

TrueText == <<"t", "r", "u", "e">>

\* the call returned, and its content trimmed and lower-cased is "true"
SaidTrue(call) ==
  /\ call.response # Raises
  /\ str_lower(str_strip(call.response.content)) = TrueText

\* the extraction calls that returned, in order
ExtractReturned ==
  SelectSeq(llm_calls, LAMBDA c : c.purpose = "extract" /\ c.response # Raises)

AnswerCalls == SelectSeq(llm_calls, LAMBDA c : c.purpose = "answer")

\* C7: every insight comes from a match with score > 0.4 whose evaluation
\* said "true"; an extraction call directly follows the evaluation of the same
\* match that said "true", and such an evaluation is always followed by the
\* extraction; no match with score <= 0.4 is evaluated.
ChatInsightOnlyIfRelevant ==
  IsChat =>
    /\ Len(relevant_insights) = Len(ExtractReturned)
    /\ \A k \in 1..Len(ExtractReturned) :
         LET m == ExtractReturned[k].match
         IN /\ Matches[m].score > RelevanceThresholdTenths
            /\ \E p \in 1..Len(llm_calls) :
                 /\ llm_calls[p].purpose = "evaluate"
                 /\ llm_calls[p].match = m
                 /\ SaidTrue(llm_calls[p])
    /\ \A p \in 1..Len(llm_calls) :
         /\ llm_calls[p].purpose = "extract" =>
              /\ p > 1
              /\ llm_calls[p - 1].purpose = "evaluate"
              /\ llm_calls[p - 1].match = llm_calls[p].match
              /\ SaidTrue(llm_calls[p - 1])
         /\ llm_calls[p].purpose = "evaluate" =>
              /\ Matches[llm_calls[p].match].score > RelevanceThresholdTenths
              /\ SaidTrue(llm_calls[p]) =>
                   IF p < Len(llm_calls)
                   THEN /\ llm_calls[p + 1].purpose = "extract"
                        /\ llm_calls[p + 1].match = llm_calls[p].match
                   ELSE q_pc = "extract"

\* the handler finished with one insight, after skipping a match of score 0.4
\* and extracting from a match whose evaluation was " True\n"
ChatInsightOnlyIfRelevantWitness ==
  /\ IsChat
  /\ q_pc = "done"
  /\ Len(relevant_insights) = 1
  /\ \E m \in 1..Len(Matches) : Matches[m].score = RelevanceThresholdTenths
  /\ \E p \in 1..Len(llm_calls) :
       /\ llm_calls[p].purpose = "evaluate"
       /\ llm_calls[p].response = Returns(<<" ", "T", "r", "u", "e", "\n">>)
  /\ \E p \in 1..Len(llm_calls) :
       /\ llm_calls[p].purpose = "evaluate"
       /\ llm_calls[p].response = Returns(<<"T", "r", "u", "e", ".">>)

NoCallRaised == \A p \in 1..Len(llm_calls) : llm_calls[p].response # Raises

ReferencesShown ==
  \E k \in 1..Len(shown) : shown[k] = [kind |-> "write", text |-> "# References"]

\* the prompt holds the k-th insight with its number and its filename
PromptCites(prompt, k) ==
  \E j \in 3..(Len(prompt) - 2) :
    /\ prompt[j - 2] = S(ToString(k))
    /\ prompt[j] = C(relevant_insights[k])
    /\ prompt[j + 2] = S(relevant_references[k])

\* C8: never more than one answer call; when there was a match and no call
\* raised, the finished handler made exactly one, as its last call: the user
\* input alone iff no insight was collected, else a prompt holding every
\* insight with its filename; the references are shown only with insights.
ChatOneFinalAnswer ==
  IsChat =>
    /\ Len(AnswerCalls) <= 1
    /\ ReferencesShown =>
         /\ relevant_insights # <<>>
         /\ Len(AnswerCalls) = 1
         /\ AnswerCalls[1].user # <<C(user_input)>>
    /\ (q_pc = "done" /\ Truthy(search_results) /\ NoCallRaised) =>
         (Matches # <<>> =>
            /\ Len(AnswerCalls) = 1
            /\ llm_calls[Len(llm_calls)].purpose = "answer"
            /\ (AnswerCalls[1].user = <<C(user_input)>>) <=> (relevant_insights = <<>>)
            /\ \A k \in 1..Len(relevant_insights) : PromptCites(AnswerCalls[1].user, k)
            /\ ReferencesShown <=> (relevant_insights # <<>>))

\* the handler finished without any call raising, with two insights from
\* different files, the answer and the references shown
ChatOneFinalAnswerWitness ==
  /\ IsChat
  /\ q_pc = "done"
  /\ NoCallRaised
  /\ Len(relevant_insights) = 2
  /\ relevant_references[1] # relevant_references[2]
  /\ ReferencesShown

\* C9: relevant_insights and relevant_references have the same length; the
\* k-th reference is the filename of the match the k-th insight was extracted
\* from; both follow the order of the matches.
ChatCitationsAligned ==
  IsChat =>
    /\ Len(relevant_insights) = Len(relevant_references)
    /\ Len(relevant_references) = Len(ExtractReturned)
    /\ \A k \in 1..Len(relevant_references) :
         /\ relevant_references[k] = Matches[ExtractReturned[k].match].metadata.filename
         /\ relevant_insights[k] = str_strip(ExtractReturned[k].response.content)
    /\ \A k, l \in 1..Len(ExtractReturned) :
         k < l => ExtractReturned[k].match < ExtractReturned[l].match

\* in the loop, two insights were extracted from the first and the third
\* match, which are of different files, the second match being left out
ChatCitationsAlignedWitness ==
  /\ IsChat
  /\ q_pc = "relevance"
  /\ Len(relevant_references) = 2
  /\ ExtractReturned[1].match = 1
  /\ ExtractReturned[2].match = 3
  /\ relevant_references[1] # relevant_references[2]

\* C12: embed_query and query_pinecone report failure as a value. The
\* embedding an entry point holds is None exactly when the embedding call
\* raised and the embedding otherwise; the result of query_pinecone is None
\* exactly when the index call raised and otherwise the response of the index
\* to a request for top_k matches (the default 5 everywhere but in the
\* Chatbot) in namespace "ns1" with metadata included and values excluded:
\* at most top_k matches, each with metadata and without values.
QueryFailureIsAValue ==
  /\ q_embed_calls # <<>> =>
       /\ Len(q_embed_calls) = 1
       /\ q_embed_calls[1].ok =>
            embedding = Embedding(q_embed_calls[1].model, q_embed_calls[1].input)
       /\ ~q_embed_calls[1].ok => embedding = None
  /\ q_embed_calls = <<>> => embedding = None
  /\ query_calls = <<>> => search_results = None
  /\ query_calls # <<>> =>
       LET c == query_calls[1]
       IN /\ Len(query_calls) = 1
          /\ c.vector = embedding
          /\ c.namespace = "ns1"
          /\ c.include_metadata
          /\ ~c.include_values
          /\ c.top_k = top_k_of(entry)
          /\ entry # "st_chatbot" => c.top_k = QueryDefaultTopK
          /\ c.response = Raises => search_results = None
          /\ c.response # Raises =>
               /\ search_results = c.response
               /\ Len(search_results.matches) <= c.top_k
               /\ \A m \in 1..Len(search_results.matches) :
                    /\ "metadata" \in DOMAIN search_results.matches[m]
                    /\ "values" \notin DOMAIN search_results.matches[m]

\* the success case: the Search button got a response with two matches
QueryResponseReturned ==
  /\ q_pc = "done"
  /\ entry = "st_search"
  /\ query_calls # <<>>
  /\ query_calls[1].response # Raises
  /\ Len(search_results.matches) = 2

\* the failure case: the question was embedded, the index call raised and
\* the entry point went on with None
QueryFailureIsAValueWitness ==
  /\ q_pc = "done"
  /\ query_calls # <<>>
  /\ Truthy(embedding)
  /\ query_calls[1].response = Raises
  /\ search_results = None

\* C15 as claimed: in every query entry point the index is queried only with
\* an embedding that embed_query produced; after embed_query returned None,
\* query_pinecone is not called.
QueryOnlyWithEmbedding ==
  \A k \in 1..Len(query_calls) :
    /\ Truthy(query_calls[k].vector)
    /\ q_embed_calls # <<>> /\ q_embed_calls[1].ok

\* What the code does instead: every entry point but the Chatbot's Send
\* button checks the embedding before it calls query_pinecone.
QueryOnlyWithEmbeddingButChatbot ==
  \A k \in 1..Len(query_calls) :
    entry # "st_chatbot" =>
      /\ Truthy(query_calls[k].vector)
      /\ q_embed_calls # <<>> /\ q_embed_calls[1].ok

\* C18: in the Chatbot path no partial answer is shown on failure. Once the
\* index query or a call of the chat model (evaluation, extraction or final
\* answer) has raised, the handler is over, the last thing shown is an error
\* message, nothing was written (no "AI:" answer, no references), and the
\* raising call is the last call of the chat model; after a raising index
\* query there is none.
ChatNoPartialAnswer ==
  IsChat =>
    LET queryRaised == query_calls # <<>> /\ query_calls[1].response = Raises
        callRaised == \E p \in 1..Len(llm_calls) : llm_calls[p].response = Raises
    IN /\ (queryRaised \/ callRaised) =>
            /\ q_pc = "done"
            /\ shown # <<>>
            /\ shown[Len(shown)].kind = "error"
            /\ \A k \in 1..Len(shown) : shown[k].kind # "write"
            /\ \A p \in 1..Len(llm_calls) :
                 llm_calls[p].response = Raises => p = Len(llm_calls)
       /\ callRaised => shown[Len(shown)] = ErrorQuerying
       /\ queryRaised => llm_calls = <<>>

\* an extraction call raised after an earlier match had given an insight:
\* the insight collected so far is not shown
ChatNoPartialAnswerWitness ==
  /\ IsChat
  /\ q_pc = "done"
  /\ relevant_insights # <<>>
  /\ llm_calls[Len(llm_calls)].purpose = "extract"
  /\ llm_calls[Len(llm_calls)].response = Raises
  /\ shown = <<ErrorQuerying>>

====
